---------------------------- MODULE Spec2Model ----------------------------
(***************************************************************************)
(* A model of the script-to-audio synthesis pipeline of                    *)
(* src/src/podcast/text_to_speech.py: the text normalizer, the phase       *)
(* splitter, the per-line segment loop of both engines and the podcast     *)
(* combiner, together with the caller in src/app.py that receives the      *)
(* result.                                                                 *)
(*                                                                         *)
(* Strings are sequences of one-character strings, so that strip, replace, *)
(* re.split, split and endswith are computed as Python computes them.      *)
(* Waveforms are sequences of samples; a sample produced by the underlying *)
(* model is the pair <<line, part>> that names the call that produced it,  *)
(* and a sample of silence is <<0, 0>>.                                    *)
(***************************************************************************)
EXTENDS Integers, Sequences, FiniteSets, TLC

VARIABLES
    \* ---- the text functions (specifications SpecClean and SpecSplit)
    fn_text,          \* the input text
    fn_max,           \* max_chars_per_phase
    fn_out,           \* the result: a string (clean) or a list of strings (split)
    fn_pc,            \* "input" | "cleaned" | "split"
    \* ---- one generation run (specification Spec)
    engine,           \* "kokoro" (PodcastTTSGenerator) | "chatterbox" (ChatterboxTTSGenerator)
    script,           \* podcast_script.script: a list of [speaker, text]
    combine_audio,    \* the combine_audio argument
    line_no,          \* the number of loop iterations finished (enumerate's i)
    audio_segments,   \* the local list audio_segments
    output_files,     \* the local list output_files
    disk,             \* the files under output_dir: path -> waveform
    io_log,           \* the calls made so far, in order: the texts handed to
                      \* the underlying model and the paths given to sf.write
    failed,           \* the iterations that ended in the except branch:
                      \* [line, why]
    pc,               \* "loop" | "combine" | "returned" | "raised"
    audio_files,      \* what the caller holds: [set |-> BOOLEAN, files |-> list]
    \* ---- the machine and the construction of ChatterboxTTSGenerator
    \*      (specification SpecCtor)
    cuda_available,   \* torch.cuda.is_available()
    mps_available,    \* hasattr(torch.backends, 'mps') and
                      \* torch.backends.mps.is_available()
    chatterbox_available, \* CHATTERBOX_AVAILABLE
    torch_load,       \* the process-wide torch.load: <<>> is the original
                      \* function, <<c>> \o f the function patched in by
                      \* constructor c around f
    ctor,             \* the constructor calls: c -> the frame of __init__
    constructed,      \* the number of constructor calls begun so far
    \* ---- one ChatterboxTTSGenerator in use (specification SpecVoice)
    chatterbox_tts_generator, \* the instance: [exists, device, model,
                      \* reference_audio_path]; in the app the session slot
    ref_calls,        \* the calls of set_reference_audio so far, in order
    \* ---- the Streamlit session of app.py (specification SpecApp)
    session,          \* st.session_state: [initialized, tts_generator,
                      \* reference_audio]
    app,              \* the script run of app.py: its position, the request
                      \* being served and what was shown for it
    \* ---- the construction of PodcastTTSGenerator (specification SpecKokoro)
    kokoro_ctor,      \* the frame of __init__, the libraries it imports and
                      \* the cache directories on disk
    \* ---- script generation (specification SpecScript)
    script_gen        \* the call of generate_script_from_text: the items of
                      \* the parsed response and what the call gave back

fn_vars  == <<fn_text, fn_max, fn_out, fn_pc>>
run_vars == <<engine, script, combine_audio, line_no, audio_segments,
              output_files, disk, io_log, failed, pc, audio_files>>
dev_vars == <<cuda_available, mps_available, chatterbox_available,
              torch_load, ctor, constructed>>
gen_vars == <<chatterbox_tts_generator, ref_calls>>
app_vars == <<session, app>>
\* what a generation run leaves alone
kok_vars == <<kokoro_ctor>>
sg_vars  == <<script_gen>>
env_vars == <<fn_vars, kok_vars, sg_vars, dev_vars, gen_vars, app_vars>>
vars     == <<fn_vars, run_vars, dev_vars, gen_vars, app_vars, kok_vars,
              sg_vars>>

----------------------------------------------------------------------------
(* Bounds of the model. *)

\* the longest text given to the text normalizer
MaxCleanLen == 5
\* the longest text given to the phase splitter
MaxSplitLen == 6
\* the largest max_chars_per_phase given to the phase splitter
MaxChars == 4

----------------------------------------------------------------------------
(* Python's str and re operations on sequences of characters. *)

Whitespace == {" "}
Terminal   == {".", "!", "?"}

\* the characters of the texts given to the normalizer and to the splitter
CleanAlphabet == {"a", " ", ".", "!", "?"}
SplitAlphabet == {"a", " ", ".", "!"}

StringsOver(alphabet, n) == UNION {[1..k -> alphabet] : k \in 0..n}

Range(s) == {s[k] : k \in 1..Len(s)}

\* str.lstrip / str.rstrip / str.strip
RECURSIVE LStrip(_)
LStrip(s) ==
    IF s # <<>> /\ Head(s) \in Whitespace THEN LStrip(Tail(s)) ELSE s

RECURSIVE RStrip(_)
RStrip(s) ==
    IF s # <<>> /\ s[Len(s)] \in Whitespace
    THEN RStrip(SubSeq(s, 1, Len(s) - 1))
    ELSE s

Strip(s) == RStrip(LStrip(s))

\* s.startswith(pat)
StartsWith(s, pat) ==
    /\ Len(pat) <= Len(s)
    /\ SubSeq(s, 1, Len(pat)) = pat

\* s.replace(pat, rep) for a non-empty pat: leftmost, non-overlapping
RECURSIVE Replace(_, _, _)
Replace(s, pat, rep) ==
    IF s = <<>> THEN <<>>
    ELSE IF StartsWith(s, pat)
         THEN rep \o Replace(SubSeq(s, Len(pat) + 1, Len(s)), pat, rep)
         ELSE <<Head(s)>> \o Replace(Tail(s), pat, rep)

\* s.endswith(('.', '!', '?'))
EndsWithTerminal(s) == s # <<>> /\ s[Len(s)] \in Terminal

\* the last index of the run of characters of `set` that starts at p
RECURSIVE RunEnd(_, _, _)
RunEnd(s, p, set) ==
    IF p < Len(s) /\ s[p + 1] \in set THEN RunEnd(s, p + 1, set) ELSE p

\* re.split(r'[.!?]+\s+', s): the pieces between the matches. A match is a
\* maximal run of terminal punctuation directly followed by whitespace, with
\* the whole whitespace run; `from` is where the current piece starts and p
\* the position scanned.
RECURSIVE ReSplitFrom(_, _, _)
ReSplitFrom(s, from, p) ==
    IF p > Len(s) THEN <<SubSeq(s, from, Len(s))>>
    ELSE IF s[p] \in Terminal
         THEN LET e == RunEnd(s, p, Terminal)
              IN  IF e < Len(s) /\ s[e + 1] \in Whitespace
                  THEN LET w == RunEnd(s, e + 1, Whitespace)
                       IN  <<SubSeq(s, from, p - 1)>> \o ReSplitFrom(s, w + 1, w + 1)
                  ELSE ReSplitFrom(s, from, e + 1)
         ELSE ReSplitFrom(s, from, p + 1)

ReSplit(s) == ReSplitFrom(s, 1, 1)

\* s.split(): the maximal runs of non-whitespace characters
RECURSIVE WordsFrom(_, _)
WordsFrom(s, word) ==
    IF s = <<>> THEN (IF word = <<>> THEN <<>> ELSE <<word>>)
    ELSE IF Head(s) \in Whitespace
         THEN (IF word = <<>> THEN <<>> ELSE <<word>>) \o WordsFrom(Tail(s), <<>>)
         ELSE WordsFrom(Tail(s), Append(word, Head(s)))

Words(s) == WordsFrom(s, <<>>)

----------------------------------------------------------------------------
(* PodcastTTSGenerator._clean_text_for_tts *)

\* a normalizer that forgets the closing period
AppendTerminalForgotten(s) == s

\* clean_text += '.' unless it ends in '.', '!' or '?'
AppendTerminal(s) == IF EndsWithTerminal(s) THEN s ELSE Append(s, ".")

CleanTextForTTS(text) ==
    LET stripped == Strip(text)
        r1 == Replace(stripped, <<".", ".", ".">>, <<".">>)
        r2 == Replace(r1, <<"!", "!">>, <<"!">>)
        r3 == Replace(r2, <<"?", "?">>, <<"?">>)
    IN  AppendTerminal(r3)

----------------------------------------------------------------------------
(* ChatterboxTTSGenerator._split_text_into_phases *)

\* a first loop that closes a phase without starting the next one with the
\* sentence in hand
AddSentenceLost(st, raw, max_chars) ==
    LET stripped == Strip(raw)
        sentence == IF EndsWithTerminal(stripped) THEN stripped
                    ELSE Append(stripped, ".")
    IN  IF stripped = <<>> THEN st
        ELSE IF Len(st.current) + Len(sentence) > max_chars /\ st.current # <<>>
             THEN [phases  |-> Append(st.phases, Strip(st.current)),
                   current |-> <<>>]
             ELSE [phases  |-> st.phases,
                   current |-> IF st.current # <<>>
                               THEN st.current \o <<" ">> \o sentence
                               ELSE sentence]

\* the first loop: st = [phases, current_phase] after the sentences so far
AddSentence(st, raw, max_chars) ==
    LET stripped == Strip(raw)
        sentence == IF EndsWithTerminal(stripped) THEN stripped
                    ELSE Append(stripped, ".")
    IN  IF stripped = <<>> THEN st
        ELSE IF Len(st.current) + Len(sentence) > max_chars /\ st.current # <<>>
             THEN [phases  |-> Append(st.phases, Strip(st.current)),
                   current |-> sentence]
             ELSE [phases  |-> st.phases,
                   current |-> IF st.current # <<>>
                               THEN st.current \o <<" ">> \o sentence
                               ELSE sentence]

RECURSIVE AccumulateSentences(_, _, _)
AccumulateSentences(st, sentences, max_chars) ==
    IF sentences = <<>> THEN st
    ELSE AccumulateSentences(AddSentence(st, Head(sentences), max_chars),
                             Tail(sentences), max_chars)

SentencePhases(text, max_chars) ==
    LET st == AccumulateSentences([phases |-> <<>>, current |-> <<>>],
                                  ReSplit(text), max_chars)
    IN  IF Strip(st.current) # <<>>
        THEN Append(st.phases, Strip(st.current))
        ELSE st.phases

\* the word loop: st = [chunks, current_chunk] after the words so far
AddWord(st, word, max_chars) ==
    IF Len(st.current) + Len(word) + 1 > max_chars /\ st.current # <<>>
    THEN [chunks |-> Append(st.chunks, Strip(st.current)), current |-> word]
    ELSE [chunks  |-> st.chunks,
          current |-> IF st.current # <<>>
                      THEN st.current \o <<" ">> \o word
                      ELSE word]

RECURSIVE AccumulateWords(_, _, _)
AccumulateWords(st, words, max_chars) ==
    IF words = <<>> THEN st
    ELSE AccumulateWords(AddWord(st, Head(words), max_chars),
                         Tail(words), max_chars)

WordChunks(phase, max_chars) ==
    LET st == AccumulateWords([chunks |-> <<>>, current |-> <<>>],
                              Words(phase), max_chars)
    IN  IF Strip(st.current) # <<>>
        THEN Append(st.chunks, Strip(st.current))
        ELSE st.chunks

\* a splitter that never takes the word-splitting path
VeryLongNever(phase, max_chars) == FALSE

\* len(phase) > max_chars_per_phase * 1.5
VeryLong(phase, max_chars) == 2 * Len(phase) > 3 * max_chars

RECURSIVE SplitLongPhases(_, _)
SplitLongPhases(phases, max_chars) ==
    IF phases = <<>> THEN <<>>
    ELSE (IF VeryLong(Head(phases), max_chars)
          THEN WordChunks(Head(phases), max_chars)
          ELSE <<Head(phases)>>)
         \o SplitLongPhases(Tail(phases), max_chars)

SplitTextIntoPhases(text, max_chars) ==
    SplitLongPhases(SentencePhases(text, max_chars), max_chars)


----------------------------------------------------------------------------
(* One generation run: generate_podcast_audio of either engine, and the    *)
(* caller that receives its result.                                        *)

\* the longest script
MaxLines == 3
\* the most chunks the Kokoro pipeline emits for one text
MaxChunks == 2
\* the samples of one waveform returned by the underlying model
PartSamples == 1
\* self.sample_rate / self.sr, scaled down: samples per second
SampleRate == 10
\* the max_chars_per_phase=800 that generate_podcast_audio passes to the
\* splitter, scaled down to the length of the model's lines
ChatterboxMaxChars == 4
\* the default max_chars_per_phase=1000 of the splitter, scaled alike
DefaultMaxChars == 5

Engines == {"kokoro", "chatterbox"}

\* the lines a script is made of: speaker label and text, each text stripped
\* and closed by punctuation as script validation leaves it
LineShort == [speaker |-> <<"S">>,
              text    |-> <<"a", "!", "!">>]
LineTwoPhases == [speaker |-> <<"S", " ", "1">>,
                  text    |-> <<"a", "a", ".", " ", "a", "a", ".">>]
LineLongSentence == [speaker |-> <<"S">>,
                     text    |-> <<"a", " ", "a", " ", "a", " ", "a", ".">>]
ScriptLines == {LineShort, LineTwoPhases, LineLongSentence}

Scripts == UNION {[1..n -> ScriptLines] : n \in 1..MaxLines}

\* str.lower on the characters of the speaker labels
LowerChar(c) == IF c = "S" THEN "s" ELSE c

\* speaker.replace(' ', '_').lower()
SpeakerSlug(speaker) ==
    [k \in 1..Len(speaker) |->
        LowerChar(IF speaker[k] = " " THEN "_" ELSE speaker[k])]

\* the decimal digits of n, most significant first
RECURSIVE Decimal(_)
Decimal(n) == IF n < 10 THEN <<n>> ELSE Append(Decimal(n \div 10), n % 10)

\* format(n, "03d")
ZeroPad3(n) ==
    LET d == Decimal(n)
    IN  [k \in 1..(3 - Len(d)) |-> 0] \o d

\* a file name that is numbered from zero
SegmentPathZeroBased(line, speaker) ==
    [dir |-> "output_dir",
     name |-> <<"segment", ZeroPad3(line - 1), SpeakerSlug(speaker), "wav">>]

\* os.path.join(output_dir, f"segment_{i+1:03d}_{slug}.wav"), i+1 = line
SegmentPath(line, speaker) ==
    [dir |-> "output_dir",
     name |-> <<"segment", ZeroPad3(line), SpeakerSlug(speaker), "wav">>]

\* os.path.join(output_dir, "complete_podcast.wav")
CombinedPath ==
    [dir |-> "output_dir", name |-> <<"complete_podcast", "wav">>]

\* the waveform the underlying model returns for part `part` of line `line`
Wave(line, part) == [k \in 1..PartSamples |-> <<line, part>>]

\* np.zeros(n) / torch.zeros(1, n)
Silence(n) == [k \in 1..n |-> <<0, 0>>]

\* int(pause_duration * sample_rate), pause_duration in tenths of a second
PauseSamples(tenths) == (tenths * SampleRate) \div 10

\* a join that puts the pause after every part, the last one too
RECURSIVE JoinWithPauseTrailing(_, _)
JoinWithPauseTrailing(parts, pause) ==
    IF parts = <<>> THEN <<>>
    ELSE Head(parts) \o pause \o JoinWithPauseTrailing(Tail(parts), pause)

\* np.concatenate(parts) / torch.cat of the parts, `pause` between
\* consecutive parts and none after the last
RECURSIVE JoinWithPause(_, _)
JoinWithPause(parts, pause) ==
    IF parts = <<>> THEN <<>>
    ELSE IF Len(parts) = 1 THEN Head(parts)
    ELSE Head(parts) \o pause \o JoinWithPause(Tail(parts), pause)

\* the texts of one line handed to the underlying model, in order:
\* Kokoro hands the cleaned text whole, Chatterbox the phases of the raw text
TextsForModel(eng, text) ==
    IF eng = "kokoro" THEN <<CleanTextForTTS(text)>>
    ELSE SplitTextIntoPhases(text, ChatterboxMaxChars)

\* the segment audio of a line from the `n` parts the model returned:
\* Kokoro concatenates the chunks, Chatterbox joins the phases with 0.3 s
SegmentAudio(eng, line, n) ==
    JoinWithPause([k \in 1..n |-> Wave(line, k)],
                  IF eng = "kokoro" THEN <<>> ELSE Silence(PauseSamples(3)))

\* the pause of _combine_audio_segments: 0.2 s for Kokoro, 0.5 s for Chatterbox
CombinePause(eng) ==
    Silence(PauseSamples(IF eng = "kokoro" THEN 2 ELSE 5))

\* a combiner that puts each segment in front of the ones before it
CombinedAudioReversed(segments, pause) ==
    JoinWithPause([k \in 1..Len(segments) |->
                      segments[Len(segments) + 1 - k].audio_data], pause)

\* the loop of _combine_audio_segments followed by np.concatenate
CombinedAudio(segments, pause) ==
    JoinWithPause([k \in 1..Len(segments) |-> segments[k].audio_data], pause)

\* sf.write(path, data, rate)
WriteFile(files, path, data) == (path :> data) @@ files

\* the concurrent callers of ChatterboxTTSGenerator()
Constructors == {1, 2}

\* the frame of a constructor call that has not begun
CtorIdle ==
    [pc |-> "idle", explicit |-> "None", requested |-> "None",
     device |-> "None", saved |-> <<>>, loads |-> <<>>, model |-> "None",
     error |-> "None"]

\* the cache directories _configure_cache_dirs makes, in its order
CacheDirs == <<"cache_root", "huggingface", "kokoro">>

\* the frame of PodcastTTSGenerator.__init__ before the call, on a machine
\* with every library and no cache directory yet
KokoroCtorIdle ==
    [pc |-> "idle", kpipeline |-> TRUE, spacy |-> TRUE,
     snapshot_download |-> TRUE, dirs |-> {}, steps |-> <<>>,
     pipeline |-> FALSE, error |-> "None", calls |-> 0]

\* no PodcastTTSGenerator is being constructed
KokoroIdle == kokoro_ctor = KokoroCtorIdle

\* no call of generate_script_from_text
ScriptGenIdle ==
    script_gen = [pc |-> "idle", items |-> <<>>, script |-> <<>>,
                  total_lines |-> 0, error |-> "None"]

\* no ChatterboxTTSGenerator: the value None of a slot
NoGenerator ==
    [exists |-> FALSE, device |-> "None", model |-> "None",
     reference_audio_path |-> "None"]

\* the instance a constructor call leaves: self.device, self.model loaded on
\* `device`, self.reference_audio_path = None
NewGenerator(device) ==
    [exists |-> TRUE, device |-> device, model |-> device,
     reference_audio_path |-> "None"]

\* a machine on which nothing is being constructed
MachineIdle ==
    /\ cuda_available = FALSE
    /\ mps_available = FALSE
    /\ chatterbox_available = TRUE
    /\ torch_load = <<>>
    /\ ctor = [c \in Constructors |-> CtorIdle]
    /\ constructed = 0

\* no instance in use
GeneratorIdle ==
    /\ chatterbox_tts_generator = NoGenerator
    /\ ref_calls = <<>>

\* no session of the app
AppIdle ==
    /\ session = [initialized |-> FALSE, tts_generator |-> FALSE,
                  reference_audio |-> "None"]
    /\ app = [pc |-> "none", tts_engine |-> "None", outcome |-> "None",
              result |-> "None", requests |-> 0, events |-> <<>>,
              warned |-> FALSE]

\* the audio_prompt_path of a call of self.model.generate: the reference
\* the instance holds, None for a call without audio_prompt_path and for
\* the Kokoro pipeline
AudioPrompt ==
    IF engine = "chatterbox"
    THEN chatterbox_tts_generator.reference_audio_path
    ELSE "None"

\* io_log after the first n texts of a line were handed to the model
CallsFor(line, texts, n) ==
    io_log \o [k \in 1..n |->
                 [op |-> "generate", line |-> line, arg |-> texts[k],
                  audio_prompt_path |-> AudioPrompt]]

\* a call of sf.write in io_log; line is 0 for complete_podcast.wav
WriteCall(line, path) ==
    [op |-> "write", line |-> line, arg |-> path,
     audio_prompt_path |-> "None"]

Init ==
    /\ MachineIdle
    /\ chatterbox_tts_generator = NewGenerator("cpu")
    /\ ref_calls = <<>>
    /\ AppIdle
    /\ engine \in Engines
    /\ script \in Scripts
    /\ combine_audio \in BOOLEAN
    /\ line_no = 0
    /\ audio_segments = <<>>
    /\ output_files = <<>>
    /\ disk = <<>>
    /\ io_log = <<>>
    /\ failed = {}
    /\ pc = "loop"
    /\ audio_files = [set |-> FALSE, files |-> <<>>]
    /\ fn_text = <<>>
    /\ fn_max = 0
    /\ fn_out = <<>>
    /\ fn_pc = "idle"
    /\ KokoroIdle
    /\ ScriptGenIdle

\* an except branch that ends the run instead of continuing
LineFailsAborts(line, why, calls) ==
    /\ failed' = failed \cup {[line |-> line, why |-> why]}
    /\ io_log' = calls
    /\ line_no' = line
    /\ pc' = "raised"
    /\ UNCHANGED <<audio_segments, output_files, disk>>

\* a loop body that appends the path before the file is written, so that a
\* failing line leaves its path in the list
LineFailsKeepsPath(line, why, calls) ==
    /\ failed' = failed \cup {[line |-> line, why |-> why]}
    /\ io_log' = calls
    /\ line_no' = line
    /\ output_files' =
          Append(output_files, SegmentPath(line, script[line].speaker))
    /\ UNCHANGED <<audio_segments, disk, pc>>

\* the except branch of the loop body: log and continue with the next line
LineFails(line, why, calls) ==
    /\ failed' = failed \cup {[line |-> line, why |-> why]}
    /\ io_log' = calls
    /\ line_no' = line
    /\ UNCHANGED <<audio_segments, output_files, disk, pc>>

\* a try branch that starts the list of AudioSegment records anew with each
\* line, so that the records made before are lost
LineSucceedsRestarts(line, calls, audio) ==
    LET speaker == script[line].speaker
        path    == SegmentPath(line, speaker)
    IN  /\ disk' = WriteFile(disk, path, audio)
        /\ output_files' = Append(output_files, path)
        /\ audio_segments' =
              IF combine_audio
              THEN <<[speaker    |-> speaker,
                      text       |-> script[line].text,
                      audio_data |-> audio,
                      duration   |-> <<Len(audio), SampleRate>>,
                      file_path  |-> path]>>
              ELSE audio_segments
        /\ io_log' = Append(calls, WriteCall(line, path))
        /\ line_no' = line
        /\ UNCHANGED <<failed, pc>>

\* the try branch carried to its end: the file is written, its path is
\* appended and, when combining, the AudioSegment is appended
LineSucceeds(line, calls, audio) ==
    LET speaker == script[line].speaker
        path    == SegmentPath(line, speaker)
    IN  /\ disk' = WriteFile(disk, path, audio)
        /\ output_files' = Append(output_files, path)
        /\ audio_segments' =
              IF combine_audio
              THEN Append(audio_segments,
                          [speaker    |-> speaker,
                           text       |-> script[line].text,
                           audio_data |-> audio,
                           duration   |-> <<Len(audio), SampleRate>>,
                           file_path  |-> path])
              ELSE audio_segments
        /\ io_log' = Append(calls, WriteCall(line, path))
        /\ line_no' = line
        /\ UNCHANGED <<failed, pc>>

\* one iteration of the loop of PodcastTTSGenerator.generate_podcast_audio
KokoroLine ==
    /\ pc = "loop"
    /\ engine = "kokoro"
    /\ line_no < Len(script)
    /\ LET line  == line_no + 1
           texts == TextsForModel("kokoro", script[line].text)
           calls == CallsFor(line, texts, 1)
       IN  \/ \* the pipeline raises
              LineFails(line, "synthesis", calls)
           \/ \* the pipeline emits no chunk: np.concatenate([]) raises
              LineFails(line, "no_audio", calls)
           \/ \* the pipeline emits its chunks and sf.write raises
              LineFails(line, "write", calls)
           \/ \E n \in 1..MaxChunks :
                 LineSucceeds(line, calls, SegmentAudio("kokoro", line, n))
    /\ UNCHANGED <<engine, script, combine_audio, audio_files, env_vars>>

\* the instance in use still has its model attribute
HasModel == chatterbox_tts_generator.model \notin {"None", "deleted"}

\* an assembly of the parts of a line that accepts an empty list
HasFirstPartAlways(parts) == TRUE

\* segment_audio_parts[0] of the parts generated for the phases: IndexError
\* on an empty list
HasFirstPart(parts) == parts # <<>>

\* one iteration of the loop of ChatterboxTTSGenerator.generate_podcast_audio
ChatterboxLine ==
    /\ pc = "loop"
    /\ engine = "chatterbox"
    /\ line_no < Len(script)
    /\ LET line   == line_no + 1
           phases == TextsForModel("chatterbox", script[line].text)
       IN  \/ \* self.model.generate raises on phase k
              /\ HasModel
              /\ \E k \in 1..Len(phases) :
                    LineFails(line, "synthesis", CallsFor(line, phases, k))
           \/ \* the instance has no model attribute: self.model raises
              \* AttributeError before any call of generate
              /\ ~HasModel
              /\ phases # <<>>
              /\ LineFails(line, "synthesis", io_log)
           \/ \* no phase: segment_audio_parts[0] raises IndexError
              /\ ~HasFirstPart(phases)
              /\ LineFails(line, "no_audio", io_log)
           \/ \* every phase is generated and sf.write raises
              /\ HasModel
              /\ HasFirstPart(phases)
              /\ LineFails(line, "write", CallsFor(line, phases, Len(phases)))
           \/ /\ HasModel
              /\ HasFirstPart(phases)
              /\ LineSucceeds(line, CallsFor(line, phases, Len(phases)),
                              SegmentAudio("chatterbox", line, Len(phases)))
    /\ UNCHANGED <<engine, script, combine_audio, audio_files, env_vars>>

\* a guard that combines only when there are several segments
ShouldCombineSeveral == combine_audio /\ Len(audio_segments) > 1

\* if combine_audio and audio_segments:
ShouldCombine == combine_audio /\ audio_segments # <<>>

\* the loop is over and nothing is to combine: return output_files
ReturnSegments ==
    /\ pc = "loop"
    /\ line_no = Len(script)
    /\ ~ShouldCombine
    /\ pc' = "returned"
    /\ audio_files' = [set |-> TRUE, files |-> output_files]
    /\ UNCHANGED <<engine, script, combine_audio, line_no, audio_segments,
                   output_files, disk, io_log, failed, env_vars>>

\* _combine_audio_segments writes complete_podcast.wav; its path is appended
\* and output_files is returned to the caller
CombineAndReturn ==
    /\ pc = "loop"
    /\ line_no = Len(script)
    /\ ShouldCombine
    /\ disk' = WriteFile(disk, CombinedPath,
                         CombinedAudio(audio_segments, CombinePause(engine)))
    /\ io_log' = Append(io_log, WriteCall(0, CombinedPath))
    /\ output_files' = Append(output_files, CombinedPath)
    /\ pc' = "returned"
    /\ audio_files' = [set |-> TRUE, files |-> output_files']
    /\ UNCHANGED <<engine, script, combine_audio, line_no, audio_segments,
                   failed, env_vars>>

\* _combine_audio_segments raises (np.concatenate or sf.write): the error is
\* logged and raised again, generate_podcast_audio does not return, and the
\* caller's except branch reports it; audio_files is never assigned
CombineRaises ==
    /\ pc = "loop"
    /\ line_no = Len(script)
    /\ ShouldCombine
    /\ pc' = "raised"
    /\ UNCHANGED <<engine, script, combine_audio, line_no, audio_segments,
                   output_files, disk, io_log, failed, audio_files, env_vars>>

Next ==
    \/ KokoroLine
    \/ ChatterboxLine
    \/ ReturnSegments
    \/ CombineAndReturn
    \/ CombineRaises

Spec == Init /\ [][Next]_vars

----------------------------------------------------------------------------
(* The text functions as state machines: the input is drawn in Init and   *)
(* one action applies the function.                                        *)

\* the state of the text functions while none is exercised
TextIdle ==
    /\ fn_text = <<>>
    /\ fn_max = 0
    /\ fn_out = <<>>
    /\ fn_pc = "idle"

\* the state of a generation run while only a text function is exercised
RunIdle ==
    /\ engine = "kokoro"
    /\ script = <<>>
    /\ combine_audio = FALSE
    /\ line_no = 0
    /\ audio_segments = <<>>
    /\ output_files = <<>>
    /\ disk = <<>>
    /\ io_log = <<>>
    /\ failed = {}
    /\ pc = "idle"
    /\ audio_files = [set |-> FALSE, files |-> <<>>]

InitClean ==
    /\ fn_text \in StringsOver(CleanAlphabet, MaxCleanLen)
    /\ fn_max = 0
    /\ fn_out = <<>>
    /\ fn_pc = "input"
    /\ RunIdle
    /\ KokoroIdle
    /\ ScriptGenIdle
    /\ MachineIdle
    /\ GeneratorIdle
    /\ AppIdle

CleanText ==
    /\ fn_pc = "input"
    /\ fn_out' = CleanTextForTTS(fn_text)
    /\ fn_pc' = "cleaned"
    /\ UNCHANGED <<fn_text, fn_max, run_vars, dev_vars, gen_vars, app_vars,
                   kok_vars, sg_vars>>

NextClean == CleanText

SpecClean == InitClean /\ [][NextClean]_vars

InitSplit ==
    /\ fn_text \in StringsOver(SplitAlphabet, MaxSplitLen)
    /\ fn_max \in 1..MaxChars
    /\ fn_out = <<>>
    /\ fn_pc = "input"
    /\ RunIdle
    /\ KokoroIdle
    /\ ScriptGenIdle
    /\ MachineIdle
    /\ GeneratorIdle
    /\ AppIdle

SplitText ==
    /\ fn_pc = "input"
    /\ fn_out' = SplitTextIntoPhases(fn_text, fn_max)
    /\ fn_pc' = "split"
    /\ UNCHANGED <<fn_text, fn_max, run_vars, dev_vars, gen_vars, app_vars,
                   kok_vars, sg_vars>>

NextSplit == SplitText

SpecSplit == InitSplit /\ [][NextSplit]_vars


----------------------------------------------------------------------------
(* Claims about the phase splitter and the text normalizer. *)

\* a string of one word: no whitespace inside
IsSingleWord(s) == Len(Words(s)) = 1

\* " ".join(phases)
RECURSIVE JoinWithSpace(_)
JoinWithSpace(strings) ==
    IF strings = <<>> THEN <<>>
    ELSE IF Len(strings) = 1 THEN Head(strings)
    ELSE Head(strings) \o <<" ">> \o JoinWithSpace(Tail(strings))

\* a word without the terminal punctuation that ends it
RECURSIVE RStripTerminal(_)
RStripTerminal(w) ==
    IF EndsWithTerminal(w) THEN RStripTerminal(SubSeq(w, 1, Len(w) - 1)) ELSE w

\* the words of a text in order, each without its closing punctuation; a
\* word of punctuation alone is a separator and carries no content
RECURSIVE DropEmpty(_)
DropEmpty(ws) ==
    IF ws = <<>> THEN <<>>
    ELSE (IF RStripTerminal(Head(ws)) = <<>> THEN <<>>
          ELSE <<RStripTerminal(Head(ws))>>) \o DropEmpty(Tail(ws))

Content(text) == DropEmpty(Words(text))

\* C6 as stated: every phase returned by the Phase Splitter has length <=
\* max_chars, the chunks of a word-split sentence included.
C6_EveryPhaseWithinMaxChars ==
    fn_pc = "split" => \A k \in 1..Len(fn_out) : Len(fn_out[k]) <= fn_max

\* C6 as amended: every phase returned has length <= 1.5 x max_chars unless
\* it is one single word, and a sentence longer than 1.5 x max_chars is
\* returned as its word chunks, each of length <= max_chars unless the chunk
\* is one single word.
C6_PhasesWithinOneAndAHalfMaxChars ==
    fn_pc = "split" =>
        /\ \A k \in 1..Len(fn_out) :
              2 * Len(fn_out[k]) <= 3 * fn_max \/ IsSingleWord(fn_out[k])
        /\ \A s \in Range(SentencePhases(fn_text, fn_max)) :
              2 * Len(s) > 3 * fn_max =>
                 \A c \in Range(WordChunks(s, fn_max)) :
                    /\ c \in Range(fn_out)
                    /\ Len(c) <= fn_max \/ IsSingleWord(c)

\* a sentence longer than 1.5 x max_chars was split into several word chunks
C6_Witness ==
    /\ fn_pc = "split"
    /\ \E s \in Range(SentencePhases(fn_text, fn_max)) :
          /\ 2 * Len(s) > 3 * fn_max
          /\ Len(WordChunks(s, fn_max)) >= 2
          /\ \A c \in Range(WordChunks(s, fn_max)) : c \in Range(fn_out)

\* C7: the phases joined in order carry the words of the input, none
\* dropped, duplicated or moved (closing punctuation and spacing aside).
C7_PhasesPreserveContent ==
    fn_pc = "split" => Content(JoinWithSpace(fn_out)) = Content(fn_text)

\* a text of several words that was returned as several phases
C7_Witness ==
    /\ fn_pc = "split"
    /\ Len(fn_out) >= 2
    /\ Len(Content(fn_text)) >= 3

\* C8: every phase returned by the Phase Splitter ends in '.', '!' or '?'.
C8_EveryPhaseSentenceTerminated ==
    fn_pc = "split" => \A k \in 1..Len(fn_out) : EndsWithTerminal(fn_out[k])

\* C9: the Text Normalizer returns a string that ends in '.', '!' or '?'.
C9_CleanTextEndsInTerminal ==
    fn_pc = "cleaned" => EndsWithTerminal(fn_out)

\* a text that had a repetition to collapse and no closing punctuation
C9_Witness ==
    /\ fn_pc = "cleaned"
    /\ ~EndsWithTerminal(Strip(fn_text))
    /\ Len(fn_out) < Len(Strip(fn_text))


----------------------------------------------------------------------------
(* Claims about a generation run. *)

FailedLines == {f.line : f \in failed}

\* the lines processed so far whose iteration reached the end of the try
Succeeded == (1..line_no) \ FailedLines

PathOf(line) == SegmentPath(line, script[line].speaker)

\* the paths of the succeeded lines among 1..n, in script order
RECURSIVE SucceededPaths(_)
SucceededPaths(n) ==
    IF n = 0 THEN <<>>
    ELSE IF n \in FailedLines THEN SucceededPaths(n - 1)
    ELSE Append(SucceededPaths(n - 1), PathOf(n))

IsSound(sample) == sample # <<0, 0>>

\* C1: when every line of an N-line script succeeds, the caller receives N+1
\* paths with combination enabled and N paths with combination disabled.
C1_AllLinesSucceedPathCount ==
    (pc = "returned" /\ failed = {}) =>
        /\ audio_files.set
        /\ Len(audio_files.files) =
              Len(script) + (IF combine_audio THEN 1 ELSE 0)

\* a two-line script, both lines synthesized, combined: three paths returned
C1_Witness ==
    /\ pc = "returned"
    /\ failed = {}
    /\ combine_audio
    /\ Len(script) = 2
    /\ Len(audio_files.files) = 3

\* C2: a line that fails leaves no segment file and no returned path and
\* does not end the run: every line is processed before the run ends, only
\* the combination can make the run raise, and every line that did not fail
\* has its file; a 3-line script whose line 2 fails yields the files of lines
\* 1 and 3 and a combined file holding their audio with one pause between.
C2_FailedLineIsSkipped ==
    /\ \A line \in 1..line_no :
          IF line \in FailedLines
          THEN /\ PathOf(line) \notin DOMAIN disk
               /\ PathOf(line) \notin Range(output_files)
          ELSE /\ PathOf(line) \in DOMAIN disk
               /\ PathOf(line) \in Range(output_files)
    /\ pc \in {"returned", "raised"} => line_no = Len(script)
    /\ pc = "raised" => ShouldCombine
    /\ (/\ pc = "returned"
        /\ Len(script) = 3
        /\ FailedLines = {2}
        /\ combine_audio)
       => /\ DOMAIN disk = {PathOf(1), PathOf(3), CombinedPath}
          /\ audio_files.files = <<PathOf(1), PathOf(3), CombinedPath>>
          /\ disk[CombinedPath] =
                disk[PathOf(1)] \o CombinePause(engine) \o disk[PathOf(3)]

\* the run of a 3-line script whose line 2 failed has returned
C2_Witness ==
    /\ pc = "returned"
    /\ Len(script) = 3
    /\ FailedLines = {2}
    /\ combine_audio
    /\ CombinedPath \in DOMAIN disk

\* C3: when the combination fails after at least one line was synthesized,
\* the per-line files stay on disk and the caller still receives the list of
\* those files.
C3_CallerReceivesFilesOnCombineFailure ==
    pc = "raised" =>
        /\ output_files # <<>>
        /\ \A k \in 1..Len(output_files) : output_files[k] \in DOMAIN disk
        /\ audio_files.set
        /\ audio_files.files = output_files

\* C4: lines are synthesized and written in script order, each line written
\* before the next is synthesized, the combined file is written last, and in
\* the combined waveform the audio of the succeeded lines appears in script
\* order.
C4_ScriptOrder ==
    /\ \A a, b \in 1..Len(io_log) :
          a < b =>
             /\ io_log[a].line # 0
             /\ io_log[b].line # 0 => io_log[a].line <= io_log[b].line
             /\ (io_log[a].op = "write" /\ io_log[b].line # 0)
                   => io_log[a].line < io_log[b].line
    /\ CombinedPath \in DOMAIN disk =>
          LET w == disk[CombinedPath]
          IN  /\ \A a, b \in 1..Len(w) :
                    (a < b /\ IsSound(w[a]) /\ IsSound(w[b]))
                       => w[a][1] <= w[b][1]
              /\ {w[k][1] : k \in {j \in 1..Len(w) : IsSound(w[j])}}
                    = Succeeded

\* a combined file that holds the audio of two lines with a failed line
\* between them
C4_Witness ==
    /\ pc = "returned"
    /\ CombinedPath \in DOMAIN disk
    /\ {1, 3} \subseteq Succeeded
    /\ 2 \in FailedLines

\* C5: the returned list holds one path per succeeded line, in script order,
\* each of a file written under output_dir in this run, then the path of
\* complete_podcast.wav iff combine is enabled and a line succeeded.
C5_ReturnedList ==
    /\ output_files = SucceededPaths(line_no)
          \o (IF pc = "returned" /\ combine_audio /\ Succeeded # {}
              THEN <<CombinedPath>> ELSE <<>>)
    /\ pc = "returned" =>
          /\ audio_files.set
          /\ audio_files.files = output_files
          /\ \A k \in 1..Len(output_files) :
                /\ output_files[k].dir = "output_dir"
                /\ output_files[k] \in DOMAIN disk
                /\ \E e \in 1..Len(io_log) :
                      io_log[e].op = "write" /\ io_log[e].arg = output_files[k]

\* a returned list with a skipped line, a kept line and the combined path
C5_Witness ==
    /\ pc = "returned"
    /\ combine_audio
    /\ FailedLines # {}
    /\ Len(audio_files.files) >= 3
    /\ audio_files.files[Len(audio_files.files)] = CombinedPath

\* the budget of an engine: 800 for Chatterbox, the splitter's default 1000
\* otherwise
MaxCharsBudget(eng) ==
    IF eng = "chatterbox" THEN ChatterboxMaxChars ELSE DefaultMaxChars

\* C10: with either engine, every text handed to the underlying model is a
\* phase of the normalized line text, of length within the engine's budget.
C10_ModelGetsNormalizedPhasesWithinBudget ==
    \A e \in 1..Len(io_log) :
       io_log[e].op = "generate" =>
          /\ Len(io_log[e].arg) <= MaxCharsBudget(engine)
          /\ io_log[e].arg \in
                Range(SplitTextIntoPhases(
                         CleanTextForTTS(script[io_log[e].line].text),
                         MaxCharsBudget(engine)))

----------------------------------------------------------------------------
(* The construction of a ChatterboxTTSGenerator: device detection, the     *)
(* torch.load patch, the load of the model and its fallback to the CPU.    *)

\* the most constructor calls of one behaviour
MaxConstructions == 2

Devices == {"cuda", "mps", "cpu"}

\* the device argument of the constructor; None is the default
DeviceArgs == Devices \cup {"None"}

\* a detection that asks for MPS before CUDA
DetectDevicePrefersMps ==
    IF mps_available THEN "mps"
    ELSE IF cuda_available THEN "cuda"
    ELSE "cpu"

\* _detect_device
DetectDevice ==
    IF cuda_available THEN "cuda"
    ELSE IF mps_available THEN "mps"
    ELSE "cpu"

\* the devices the machine has: a load on another device raises
CanLoad(device) ==
    \/ device = "cpu"
    \/ device = "cuda" /\ cuda_available
    \/ device = "mps" /\ mps_available

\* the map_location a torch.load call without map_location runs with: the
\* patched function reads the device of the instance that installed it at
\* the time of the call, the original function remaps nothing
MapLocation ==
    IF torch_load = <<>> THEN "None" ELSE ctor[Head(torch_load)].device

\* an except branch that retries whatever the device was
ShouldFallBackAlways(device) == TRUE

\* if self.device != "cpu":
ShouldFallBack(device) == device # "cpu"

\* an except branch that retries without changing self.device
DeviceAfterFailureKept(device) == device

\* self.device = "cpu" in the except branch
DeviceAfterFailure(device) == "cpu"

\* a constructor that puts the original loader back only when the load
\* succeeded
RestoredLoaderOnSuccessOnly(c) ==
    IF ctor[c].error = "None" THEN ctor[c].saved ELSE torch_load

\* _restore_torch_load: torch.load = self.original_torch_load
RestoredLoader(c) == ctor[c].saved

\* __init__ up to the first load: the availability check, the device and
\* _apply_device_fixes
CtorBegin(c, device) ==
    /\ ctor[c].pc \in {"idle", "done", "raised"}
    /\ constructed' = constructed + 1
    /\ IF ~chatterbox_available
       THEN /\ ctor' = [ctor EXCEPT ![c] =
                          [CtorIdle EXCEPT !.pc = "raised",
                                           !.explicit = device,
                                           !.error = "ImportError"]]
            /\ UNCHANGED torch_load
       ELSE LET d == IF device # "None" THEN device ELSE DetectDevice
            IN  /\ ctor' = [ctor EXCEPT ![c] =
                              [CtorIdle EXCEPT !.pc = "load",
                                               !.explicit = device,
                                               !.requested = d,
                                               !.device = d,
                                               !.saved = torch_load]]
                /\ torch_load' = <<c>> \o torch_load
    /\ UNCHANGED <<cuda_available, mps_available, chatterbox_available>>

\* ChatterboxTTS.from_pretrained(device=self.device) in the try branch, and
\* the except branch up to its own load
CtorLoad(c) ==
    /\ ctor[c].pc = "load"
    /\ \E ok \in BOOLEAN :
          LET f     == ctor[c]
              loads == Append(f.loads, [device       |-> f.device,
                                        map_location |-> MapLocation,
                                        ok           |-> ok])
          IN  /\ ok => CanLoad(f.device)
              /\ ctor' = [ctor EXCEPT ![c] =
                    IF ok
                    THEN [f EXCEPT !.loads = loads, !.model = f.device,
                                   !.pc = "restore"]
                    ELSE IF ShouldFallBack(f.device)
                    THEN [f EXCEPT !.loads = loads,
                                   !.device = DeviceAfterFailure(f.device),
                                   !.pc = "fallback"]
                    ELSE [f EXCEPT !.loads = loads, !.error = "load",
                                   !.pc = "restore"]]
    /\ UNCHANGED <<cuda_available, mps_available, chatterbox_available,
                   torch_load, constructed>>
    /\ UNCHANGED <<fn_vars, kok_vars, sg_vars, run_vars, gen_vars, app_vars>>

\* ChatterboxTTS.from_pretrained(device="cpu") in the except branch; its
\* exception leaves the constructor
CtorFallback(c) ==
    /\ ctor[c].pc = "fallback"
    /\ \E ok \in BOOLEAN :
          LET f     == ctor[c]
              loads == Append(f.loads, [device       |-> f.device,
                                        map_location |-> MapLocation,
                                        ok           |-> ok])
          IN  /\ ok => CanLoad(f.device)
              /\ ctor' = [ctor EXCEPT ![c] =
                    IF ok
                    THEN [f EXCEPT !.loads = loads, !.model = f.device,
                                   !.pc = "restore"]
                    ELSE [f EXCEPT !.loads = loads, !.error = "load",
                                   !.pc = "restore"]]
    /\ UNCHANGED <<cuda_available, mps_available, chatterbox_available,
                   torch_load, constructed>>
    /\ UNCHANGED <<fn_vars, kok_vars, sg_vars, run_vars, gen_vars, app_vars>>

\* the finally branch, then self.reference_audio_path = None or the
\* exception reaching the caller
CtorRestore(c) ==
    /\ ctor[c].pc = "restore"
    /\ torch_load' = RestoredLoader(c)
    /\ ctor' = [ctor EXCEPT ![c].pc =
                  IF ctor[c].error = "None" THEN "done" ELSE "raised"]
    /\ UNCHANGED <<cuda_available, mps_available, chatterbox_available,
                   constructed>>
    /\ UNCHANGED <<fn_vars, kok_vars, sg_vars, run_vars, gen_vars, app_vars>>

\* a caller constructs a generator, with a device or without
Construct ==
    /\ constructed < MaxConstructions
    /\ \E device \in DeviceArgs : CtorBegin(1, device)
    /\ UNCHANGED <<fn_vars, kok_vars, sg_vars, run_vars, gen_vars, app_vars>>

InitCtor ==
    /\ cuda_available \in BOOLEAN
    /\ mps_available \in BOOLEAN
    /\ chatterbox_available \in BOOLEAN
    /\ torch_load = <<>>
    /\ ctor = [c \in Constructors |-> CtorIdle]
    /\ constructed = 0
    /\ TextIdle
    /\ KokoroIdle
    /\ ScriptGenIdle
    /\ RunIdle
    /\ GeneratorIdle
    /\ AppIdle

NextCtor ==
    \/ Construct
    \/ CtorLoad(1)
    \/ CtorFallback(1)
    \/ CtorRestore(1)

SpecCtor == InitCtor /\ [][NextCtor]_vars

\* the constructor call has left its loads behind: it is in the finally
\* branch or has ended
LoadsOver(f) == f.pc \in {"restore", "done", "raised"}

\* the first load of the call failed on a device other than the CPU
AcceleratorLoadFailed(f) ==
    /\ f.loads # <<>>
    /\ ~f.loads[1].ok
    /\ f.loads[1].device # "cpu"

\* C13: when the load on a non-CPU device fails, a load on the CPU follows,
\* and when that load works the construction ends without an error, the
\* model of the instance is the one loaded on the CPU and the device the
\* instance reports is "cpu", not the device requested or detected.
C13_CpuFallbackReported ==
    LET f == ctor[1]
    IN  (LoadsOver(f) /\ AcceleratorLoadFailed(f)) =>
           /\ Len(f.loads) = 2
           /\ f.loads[2].device = "cpu"
           /\ f.loads[2].ok =>
                 /\ f.pc # "raised"
                 /\ f.error = "None"
                 /\ f.model = "cpu"
                 /\ f.device = "cpu"
                 /\ f.device # f.requested

\* a construction that ended well on the CPU after CUDA was requested and
\* its load failed
C13_Witness ==
    LET f == ctor[1]
    IN  /\ f.pc = "done"
        /\ AcceleratorLoadFailed(f)
        /\ f.requested = "cuda"
        /\ f.loads[2].ok
        /\ f.device = "cpu"

\* C14: a constructor call loads at most twice; a second load happens only
\* after a failed load on a non-CPU device and is a load on the CPU, and
\* such a failure is always followed by it; a failed load on the CPU is not
\* retried; a call whose last load failed ends with the error raised to the
\* caller and without a model, and a call ends well only when its last load
\* worked.
C14_AtMostOneFallback ==
    LET f == ctor[1]
        n == Len(f.loads)
    IN  /\ n <= 2
        /\ n = 2 => /\ AcceleratorLoadFailed(f)
                    /\ f.loads[2].device = "cpu"
        /\ (LoadsOver(f) /\ AcceleratorLoadFailed(f)) => n = 2
        /\ (n >= 1 /\ ~f.loads[1].ok /\ f.loads[1].device = "cpu") =>
              /\ n = 1
              /\ f.pc \in {"restore", "raised"}
              /\ f.error = "load"
        /\ (LoadsOver(f) /\ n >= 1 /\ ~f.loads[n].ok) =>
              /\ f.pc \in {"restore", "raised"}
              /\ f.error = "load"
              /\ f.model = "None"
        /\ f.pc = "done" => (n >= 1 /\ f.loads[n].ok /\ f.model # "None")

\* a construction that raised after its fallback load failed too
C14_Witness ==
    LET f == ctor[1]
    IN  /\ f.pc = "raised"
        /\ Len(f.loads) = 2
        /\ ~f.loads[2].ok

\* C15: every load of a constructor call runs under the patched loader,
\* which remaps to the device of that load (the CPU for the fallback load);
\* while the call is between its first load and its finally branch the
\* global loader is the patch of that call; and whenever no call is running,
\* after any number of calls and however each ended, the global loader is
\* the original function.
C15_PatchScopedToConstruction ==
    LET f == ctor[1]
    IN  /\ \A k \in 1..Len(f.loads) :
              /\ f.loads[k].map_location # "None"
              /\ f.loads[k].map_location = f.loads[k].device
        /\ f.pc \in {"load", "fallback", "restore"} => torch_load = <<1>>
        /\ f.pc \in {"idle", "done", "raised"} => torch_load = <<>>

\* a second construction ended with a fatal failure after a fallback load,
\* and the loader is the original one
C15_Witness ==
    LET f == ctor[1]
    IN  /\ constructed >= 2
        /\ f.pc = "raised"
        /\ Len(f.loads) = 2
        /\ f.loads[2].map_location = "cpu"
        /\ torch_load = <<>>

\* C16: the device a constructor call starts with is the device argument
\* when one is given; without one it is "cuda" whenever CUDA is available,
\* else "mps" whenever MPS is available, else "cpu".
C16_DeviceResolution ==
    LET f == ctor[1]
    IN  (f.pc # "idle" /\ f.error # "ImportError") =>
           /\ f.explicit # "None" => f.requested = f.explicit
           /\ (f.explicit = "None" /\ cuda_available) => f.requested = "cuda"
           /\ (f.explicit = "None" /\ ~cuda_available /\ mps_available) =>
                 f.requested = "mps"
           /\ (f.explicit = "None" /\ ~cuda_available /\ ~mps_available) =>
                 f.requested = "cpu"

\* a call without a device on a machine that has both accelerators
C16_Witness ==
    LET f == ctor[1]
    IN  /\ f.pc = "load"
        /\ f.explicit = "None"
        /\ cuda_available
        /\ mps_available
        /\ f.requested = "cuda"

----------------------------------------------------------------------------
(* One ChatterboxTTSGenerator used directly: calls of set_reference_audio  *)
(* followed by a generation run.                                           *)

\* the most calls of set_reference_audio before the run
MaxRefCalls == 3

\* the files that exist, and the paths a caller passes
ExistingFiles == {"voice_a.wav", "voice_b.wav"}
AudioPaths == ExistingFiles \cup {"missing.wav"}

\* the scripts of the runs of this generator
VoiceScripts == {<<LineShort>>, <<LineTwoPhases, LineShort>>}

\* a setter that keeps the reference it already has
ReferenceAfterValidKeepsFirst(old, path) ==
    IF old = "None" THEN path ELSE old

\* self.reference_audio_path = audio_path, reached when the file exists
ReferenceAfterValid(old, path) == path

\* a setter that assigns before it looks for the file
ReferenceAfterMissingAssigned(old, path) == path

\* raise FileNotFoundError, before the assignment
ReferenceAfterMissing(old, path) == old

\* set_reference_audio(audio_path) on instance `gen`: the instance after the
\* call, and the call as ref_calls records it
ReferenceSet(gen, path) ==
    LET old == gen.reference_audio_path
        new == IF path \in ExistingFiles
               THEN ReferenceAfterValid(old, path)
               ELSE ReferenceAfterMissing(old, path)
    IN  [gen  |-> [gen EXCEPT !.reference_audio_path = new],
         call |-> [path   |-> path,
                   raised |-> path \notin ExistingFiles,
                   before |-> old,
                   after  |-> new]]

\* generator.set_reference_audio(audio_path)
SetReferenceAudio ==
    /\ app.pc = "none"
    /\ pc = "idle"
    /\ chatterbox_tts_generator.exists
    /\ Len(ref_calls) < MaxRefCalls
    /\ \E path \in AudioPaths :
          LET r == ReferenceSet(chatterbox_tts_generator, path)
          IN  /\ chatterbox_tts_generator' = r.gen
              /\ ref_calls' = Append(ref_calls, r.call)
    /\ UNCHANGED <<fn_vars, kok_vars, sg_vars, run_vars, dev_vars, app_vars>>

\* generator.generate_podcast_audio(script, output_dir, combine_audio)
StartRun ==
    /\ app.pc = "none"
    /\ pc = "idle"
    /\ chatterbox_tts_generator.exists
    /\ engine' = "chatterbox"
    /\ script' \in VoiceScripts
    /\ combine_audio' \in BOOLEAN
    /\ pc' = "loop"
    /\ UNCHANGED <<line_no, audio_segments, output_files, disk, io_log,
                   failed, audio_files>>
    /\ UNCHANGED <<fn_vars, kok_vars, sg_vars, dev_vars, gen_vars, app_vars>>

InitVoice ==
    /\ chatterbox_tts_generator = NewGenerator("cpu")
    /\ ref_calls = <<>>
    /\ MachineIdle
    /\ TextIdle
    /\ KokoroIdle
    /\ ScriptGenIdle
    /\ RunIdle
    /\ AppIdle

NextVoice ==
    \/ SetReferenceAudio
    \/ StartRun
    \/ ChatterboxLine
    \/ ReturnSegments
    \/ CombineAndReturn
    \/ CombineRaises

SpecVoice == InitVoice /\ [][NextVoice]_vars

\* the path of the last call of set_reference_audio that named an existing
\* file, None when there was no such call
LastValidPath ==
    LET valid == {k \in 1..Len(ref_calls) :
                     ref_calls[k].path \in ExistingFiles}
    IN  IF valid = {} THEN "None"
        ELSE ref_calls[CHOOSE k \in valid : \A j \in valid : j <= k].path

\* C11: the reference the generator holds is the path of the last call of
\* set_reference_audio with an existing file (after two such calls the
\* second path, never the first), and every call of the model in a run
\* started afterwards passes exactly that path; when no reference was set,
\* every call of the model is made without one.
C11_LastReferenceIsUsed ==
    /\ chatterbox_tts_generator.reference_audio_path = LastValidPath
    /\ \A e \in 1..Len(io_log) :
          io_log[e].op = "generate" =>
             io_log[e].audio_prompt_path = LastValidPath

\* two valid paths were set one after the other and a run made of several
\* calls of the model has returned, each call with the second path
C11_Witness ==
    /\ Len(ref_calls) = 2
    /\ ref_calls[1].path = "voice_a.wav"
    /\ ref_calls[2].path = "voice_b.wav"
    /\ pc = "returned"
    /\ Cardinality({e \in 1..Len(io_log) :
                       /\ io_log[e].op = "generate"
                       /\ io_log[e].audio_prompt_path = "voice_b.wav"}) >= 3

----------------------------------------------------------------------------
(* The podcast combiner called on its own, next to the generation runs     *)
(* that call it.                                                           *)

\* the longest list handed to _combine_audio_segments directly
MaxDirectSegments == 3

\* a list of n segments as a caller of the combiner builds it
DirectSegments(n) ==
    [k \in 1..n |->
        [speaker    |-> <<"S">>,
         text       |-> LineShort.text,
         audio_data |-> Wave(k, 1),
         duration   |-> <<PartSamples, SampleRate>>,
         file_path  |-> SegmentPath(k, <<"S">>)]]

\* a concatenation that accepts the empty list and returns no samples
CanConcatenateAlways(parts) == TRUE

\* np.concatenate(combined_audio) raises ValueError on an empty list
CanConcatenate(parts) == parts # <<>>

\* generator._combine_audio_segments(segments, output_dir) of either engine
DirectCombine ==
    /\ pc = "direct"
    /\ \/ \* the file is written and its path returned
          /\ CanConcatenate(audio_segments)
          /\ disk' = WriteFile(disk, CombinedPath,
                         CombinedAudio(audio_segments, CombinePause(engine)))
          /\ io_log' = Append(io_log, WriteCall(0, CombinedPath))
          /\ pc' = "direct_returned"
       \/ \* sf.write raises: logged and raised again
          /\ CanConcatenate(audio_segments)
          /\ pc' = "direct_raised"
          /\ UNCHANGED <<disk, io_log>>
       \/ \* np.concatenate raises: logged and raised again
          /\ ~CanConcatenate(audio_segments)
          /\ pc' = "direct_raised"
          /\ UNCHANGED <<disk, io_log>>
    /\ UNCHANGED <<engine, script, combine_audio, line_no, audio_segments,
                   output_files, failed, audio_files, env_vars>>

InitDirect ==
    /\ engine \in Engines
    /\ script = <<>>
    /\ combine_audio = TRUE
    /\ line_no = 0
    /\ \E n \in 0..MaxDirectSegments : audio_segments = DirectSegments(n)
    /\ output_files = <<>>
    /\ disk = <<>>
    /\ io_log = <<>>
    /\ failed = {}
    /\ pc = "direct"
    /\ audio_files = [set |-> FALSE, files |-> <<>>]
    /\ MachineIdle
    /\ chatterbox_tts_generator = NewGenerator("cpu")
    /\ ref_calls = <<>>
    /\ AppIdle
    /\ TextIdle
    /\ KokoroIdle
    /\ ScriptGenIdle

InitCombine == Init \/ InitDirect

NextCombine ==
    \/ KokoroLine
    \/ ChatterboxLine
    \/ ReturnSegments
    \/ CombineAndReturn
    \/ CombineRaises
    \/ DirectCombine

SpecCombine == InitCombine /\ [][NextCombine]_vars

\* the calls of sf.write for complete_podcast.wav so far
CombinedWrites ==
    {e \in 1..Len(io_log) :
        io_log[e].op = "write" /\ io_log[e].arg = CombinedPath}

\* C17: a direct call of the combiner with an empty list ends in an
\* exception with nothing written; a generation run in which no line
\* succeeded never writes complete_podcast.wav and neither holds nor returns
\* its path; and whenever complete_podcast.wav exists it was combined from
\* at least one segment.
C17_NoCombinedFileFromZeroSegments ==
    /\ (pc \in {"direct_returned", "direct_raised"} /\ audio_segments = <<>>)
          => /\ pc = "direct_raised"
             /\ DOMAIN disk = {}
             /\ CombinedWrites = {}
    /\ (pc \in {"loop", "returned", "raised"} /\ Succeeded = {})
          => /\ CombinedPath \notin DOMAIN disk
             /\ CombinedWrites = {}
             /\ CombinedPath \notin Range(output_files)
             /\ CombinedPath \notin Range(audio_files.files)
    /\ CombinedPath \in DOMAIN disk
          => /\ audio_segments # <<>>
             /\ disk[CombinedPath] # <<>>

\* the combiner was called with an empty list and raised
C17_Witness ==
    /\ pc = "direct_raised"
    /\ audio_segments = <<>>
    /\ engine = "chatterbox"
    /\ DOMAIN disk = {}

\* where part j starts in a waveform made of the parts with `gap` samples
\* between consecutive parts: the number of samples before it
RECURSIVE OffsetOf(_, _, _)
OffsetOf(parts, j, gap) ==
    IF j = 1 THEN 0
    ELSE OffsetOf(parts, j - 1, gap) + Len(parts[j - 1]) + gap

\* `audio` is the parts in order with exactly `gap` samples of silence
\* between consecutive parts, nothing before the first and nothing after
\* the last
IsJoined(audio, parts, gap) ==
    LET k == Len(parts)
    IN  /\ k >= 1
        /\ Len(audio) = OffsetOf(parts, k, gap) + Len(parts[k])
        /\ \A j \in 1..k :
              /\ \A i \in 1..Len(parts[j]) :
                    audio[OffsetOf(parts, j, gap) + i] = parts[j][i]
              /\ j < k =>
                    \A i \in 1..gap :
                       audio[OffsetOf(parts, j, gap) + Len(parts[j]) + i]
                          = <<0, 0>>

\* the samples of the gap between segments: 0.2 s for Kokoro, 0.5 s for
\* Chatterbox
SegmentGap == IF engine = "kokoro" THEN (2 * SampleRate) \div 10
              ELSE (5 * SampleRate) \div 10

\* the samples of the gap between the phases of a Chatterbox line: 0.3 s
PhaseGap == (3 * SampleRate) \div 10

\* C18: the combined waveform of k >= 1 segments is the segments in order
\* with exactly k-1 gaps of silence, one between each two consecutive
\* segments and none before the first or after the last, so its length is
\* the sum of the segment lengths plus (k-1) gaps; the waveform of a
\* Chatterbox line of p >= 1 phases is the phases in order with exactly p-1
\* gaps, one between each two consecutive phases.
C18_SilenceOnlyBetweenItems ==
    /\ CombinedPath \in DOMAIN disk =>
          IsJoined(disk[CombinedPath],
                   [k \in 1..Len(audio_segments) |->
                       audio_segments[k].audio_data],
                   SegmentGap)
    /\ engine = "chatterbox" =>
          \A line \in Succeeded :
             LET p == Len(SplitTextIntoPhases(script[line].text,
                                              ChatterboxMaxChars))
             IN  IsJoined(disk[PathOf(line)],
                          [k \in 1..p |-> Wave(line, k)],
                          PhaseGap)

\* three Chatterbox lines combined, the first assembled from two phases
C18_Witness ==
    /\ pc = "returned"
    /\ engine = "chatterbox"
    /\ CombinedPath \in DOMAIN disk
    /\ Len(audio_segments) = 3
    /\ script[1] = LineTwoPhases
    /\ Len(disk[PathOf(1)]) = 2 * PartSamples + PhaseGap
    /\ Len(disk[CombinedPath]) > 2 * SegmentGap

----------------------------------------------------------------------------
(* One Streamlit session of app.py: initialize_generators, the Studio tab  *)
(* and generate_podcast with the cleanup of its finally branch.            *)

\* the most requests ("Generate Podcast" clicks) of one session
MaxRequests == 2

\* the script the script generator returns: at least two cleaned lines
AppScripts == {<<LineShort, LineTwoPhases>>}

\* the reference files of a session: an uploaded file that is still in the
\* temporary directory, and one that is gone from it
SessionPaths == {"voice_a.wav", "missing.wav"}

\* the instance a finished constructor call returns
InstanceOf(f) ==
    [exists |-> TRUE, device |-> f.device, model |-> f.model,
     reference_audio_path |-> "None"]

\* tts_options of render_studio_tab, by internal name
EngineOptions ==
    (IF session.tts_generator THEN {"kokoro"} ELSE {})
       \cup (IF chatterbox_tts_generator.exists THEN {"chatterbox"} ELSE {})

\* a cleanup that leaves the used instance in the slot while it constructs
SlotWhileReinitKept(slot) == slot

\* st.session_state.chatterbox_tts_generator = None before the constructor
\* is called
SlotWhileReinit(slot) == NoGenerator

\* the run variables when no generation run was started for the request
NoRun ==
    /\ engine' = app'.tts_engine
    /\ script' = <<>>
    /\ combine_audio' = TRUE
    /\ line_no' = 0
    /\ audio_segments' = <<>>
    /\ output_files' = <<>>
    /\ disk' = <<>>
    /\ io_log' = <<>>
    /\ failed' = {}
    /\ pc' = "idle"
    /\ audio_files' = [set |-> FALSE, files |-> <<>>]

\* initialize_generators on the first script run of the session: Kokoro is
\* constructed or not, and ChatterboxTTSGenerator() is called when the
\* import succeeded
InitializeGenerators ==
    /\ app.pc = "start"
    /\ ~session.initialized
    /\ \E kokoro \in BOOLEAN :
          IF chatterbox_available
          THEN /\ CtorBegin(1, "None")
               /\ session' = [session EXCEPT !.tts_generator = kokoro]
               /\ app' = [app EXCEPT !.pc = "init_ctor"]
          ELSE /\ session' = [session EXCEPT !.tts_generator = kokoro,
                                             !.initialized = TRUE]
               /\ app' = [app EXCEPT !.pc = "ready"]
               /\ UNCHANGED dev_vars
    /\ UNCHANGED <<fn_vars, kok_vars, sg_vars, run_vars, gen_vars>>

\* initialize_generators after the constructor call: the instance is stored,
\* or None when the call raised, and the session is initialized
InitStore ==
    /\ app.pc = "init_ctor"
    /\ ctor[1].pc \in {"done", "raised"}
    /\ chatterbox_tts_generator' =
          IF ctor[1].pc = "done" THEN InstanceOf(ctor[1]) ELSE NoGenerator
    /\ ctor' = [ctor EXCEPT ![1] = CtorIdle]
    /\ session' = [session EXCEPT !.initialized = TRUE]
    /\ app' = [app EXCEPT !.pc = "ready"]
    /\ UNCHANGED <<cuda_available, mps_available, chatterbox_available,
                   torch_load, constructed>>
    /\ UNCHANGED <<fn_vars, kok_vars, sg_vars, run_vars, ref_calls>>

\* render_studio_tab: a reference file is uploaded while Chatterbox is the
\* selected engine
UploadReference ==
    /\ app.pc = "ready"
    /\ "chatterbox" \in EngineOptions
    /\ \E path \in SessionPaths :
          /\ session.reference_audio # path
          /\ session' = [session EXCEPT !.reference_audio = path]
    /\ UNCHANGED <<fn_vars, kok_vars, sg_vars, run_vars, dev_vars, gen_vars, app>>

\* render_studio_tab: "Clear Reference Audio"
ClearReference ==
    /\ app.pc = "ready"
    /\ "chatterbox" \in EngineOptions
    /\ session.reference_audio # "None"
    /\ session' = [session EXCEPT !.reference_audio = "None"]
    /\ UNCHANGED <<fn_vars, kok_vars, sg_vars, run_vars, dev_vars, gen_vars, app>>

\* render_studio_tab with no engine to offer: the warning is shown and the
\* tab ends before the "Generate Podcast" button
RenderNoEngines ==
    /\ app.pc = "ready"
    /\ EngineOptions = {}
    /\ ~app.warned
    /\ app' = [app EXCEPT !.warned = TRUE]
    /\ UNCHANGED <<fn_vars, kok_vars, sg_vars, run_vars, dev_vars, gen_vars, session>>

\* "Generate Podcast" with one of the engines offered: generate_podcast up
\* to the call of generate_podcast_audio
StartRequest ==
    /\ app.pc = "ready"
    /\ app.requests < MaxRequests
    /\ \E tts_engine \in EngineOptions :
          LET request == [app EXCEPT !.tts_engine = tts_engine,
                                     !.requests = app.requests + 1,
                                     !.outcome = "None",
                                     !.result = "None",
                                     !.events = <<>>]
              r == ReferenceSet(chatterbox_tts_generator,
                                session.reference_audio)
          IN  \/ \* the script generator raises: the outer except branch
                 /\ app' = [request EXCEPT !.result = "generation_failed"]
                 /\ NoRun
                 /\ UNCHANGED gen_vars
              \/ \* no reference to set: the run starts
                 /\ ~(tts_engine = "chatterbox"
                         /\ session.reference_audio # "None")
                 /\ app' = [request EXCEPT !.pc = "running"]
                 /\ \E s \in AppScripts :
                       /\ script' = s
                       /\ engine' = tts_engine
                       /\ combine_audio' = TRUE
                       /\ line_no' = 0
                       /\ audio_segments' = <<>>
                       /\ output_files' = <<>>
                       /\ disk' = <<>>
                       /\ io_log' = <<>>
                       /\ failed' = {}
                       /\ pc' = "loop"
                       /\ audio_files' = [set |-> FALSE, files |-> <<>>]
                 /\ UNCHANGED gen_vars
              \/ \* set_reference_audio returns: the run starts
                 /\ tts_engine = "chatterbox"
                 /\ session.reference_audio # "None"
                 /\ ~r.call.raised
                 /\ chatterbox_tts_generator' = r.gen
                 /\ ref_calls' = <<r.call>>
                 /\ app' = [request EXCEPT !.pc = "running"]
                 /\ \E s \in AppScripts :
                       /\ script' = s
                       /\ engine' = tts_engine
                       /\ combine_audio' = TRUE
                       /\ line_no' = 0
                       /\ audio_segments' = <<>>
                       /\ output_files' = <<>>
                       /\ disk' = <<>>
                       /\ io_log' = <<>>
                       /\ failed' = {}
                       /\ pc' = "loop"
                       /\ audio_files' = [set |-> FALSE, files |-> <<>>]
              \/ \* set_reference_audio raises: the inner except branch
                 \* shows the error and the finally branch follows
                 /\ tts_engine = "chatterbox"
                 /\ session.reference_audio # "None"
                 /\ r.call.raised
                 /\ chatterbox_tts_generator' = r.gen
                 /\ ref_calls' = <<r.call>>
                 /\ app' = [request EXCEPT !.pc = "cleanup",
                                           !.outcome = "failed"]
                 /\ NoRun
    /\ UNCHANGED <<fn_vars, kok_vars, sg_vars, dev_vars, session>>

\* generate_podcast after generate_podcast_audio: the files are shown, or
\* the error of the inner except branch; then the finally branch, which for
\* Kokoro only collects garbage, and the script is displayed
FinishRun ==
    /\ app.pc = "running"
    /\ pc \in {"returned", "raised"}
    /\ LET shown == IF pc = "returned" THEN "shown" ELSE "failed"
       IN  app' = IF app.tts_engine = "chatterbox"
                  THEN [app EXCEPT !.outcome = shown, !.pc = "cleanup"]
                  ELSE [app EXCEPT !.outcome = shown, !.pc = "ready",
                                   !.result = "completed"]
    /\ UNCHANGED <<fn_vars, kok_vars, sg_vars, run_vars, dev_vars, gen_vars, session>>

\* the finally branch for Chatterbox: del tts_gen.model, the caches of the
\* accelerators, gc.collect, then the slot is set to None and
\* ChatterboxTTSGenerator() is called; an exception of a cache call goes to
\* the outer except branch, which logs a warning, and the script is
\* displayed
CleanupRelease ==
    /\ app.pc = "cleanup"
    /\ LET released == [chatterbox_tts_generator EXCEPT !.model = "deleted"]
       IN  \/ \* torch.cuda / torch.mps empty_cache or synchronize raises
              /\ cuda_available \/ mps_available
              /\ chatterbox_tts_generator' = released
              /\ app' = [app EXCEPT
                           !.events = <<"released", "cache_raised">>,
                           !.pc = "ready",
                           !.result = "completed"]
              /\ UNCHANGED dev_vars
           \/ /\ chatterbox_tts_generator' = SlotWhileReinit(released)
              /\ CtorBegin(1, "None")
              /\ app' = [app EXCEPT
                           !.events = <<"released", "construct">>,
                           !.pc = "cleanup_ctor"]
    /\ UNCHANGED <<fn_vars, kok_vars, sg_vars, run_vars, ref_calls, session>>

\* the finally branch after the constructor call: the new instance is
\* stored, or the warning "Could not reinitialize model" is logged; the
\* script is displayed
CleanupStore ==
    /\ app.pc = "cleanup_ctor"
    /\ ctor[1].pc \in {"done", "raised"}
    /\ IF ctor[1].pc = "done"
       THEN /\ chatterbox_tts_generator' = InstanceOf(ctor[1])
            /\ app' = [app EXCEPT !.events = Append(@, "stored"),
                                  !.pc = "ready",
                                  !.result = "completed"]
       ELSE /\ UNCHANGED chatterbox_tts_generator
            /\ app' = [app EXCEPT !.events = Append(@, "reinit_failed"),
                                  !.pc = "ready",
                                  !.result = "completed"]
    /\ ctor' = [ctor EXCEPT ![1] = CtorIdle]
    /\ UNCHANGED <<cuda_available, mps_available, chatterbox_available,
                   torch_load, constructed>>
    /\ UNCHANGED <<fn_vars, kok_vars, sg_vars, run_vars, ref_calls, session>>

InitApp ==
    /\ cuda_available \in BOOLEAN
    /\ mps_available \in BOOLEAN
    /\ chatterbox_available \in BOOLEAN
    /\ torch_load = <<>>
    /\ ctor = [c \in Constructors |-> CtorIdle]
    /\ constructed = 0
    /\ GeneratorIdle
    /\ session = [initialized |-> FALSE, tts_generator |-> FALSE,
                  reference_audio |-> "None"]
    /\ app = [pc |-> "start", tts_engine |-> "None", outcome |-> "None",
              result |-> "None", requests |-> 0, events |-> <<>>,
              warned |-> FALSE]
    /\ TextIdle
    /\ KokoroIdle
    /\ ScriptGenIdle
    /\ RunIdle

NextApp ==
    \/ InitializeGenerators
    \/ CtorLoad(1)
    \/ CtorFallback(1)
    \/ CtorRestore(1)
    \/ InitStore
    \/ UploadReference
    \/ ClearReference
    \/ RenderNoEngines
    \/ StartRequest
    \/ KokoroLine
    \/ ChatterboxLine
    \/ ReturnSegments
    \/ CombineAndReturn
    \/ CombineRaises
    \/ FinishRun
    \/ CleanupRelease
    \/ CleanupStore

SpecApp == InitApp /\ [][NextApp]_vars

\* a request served with the Voice-Cloning engine has ended: its inner try
\* block and its finally branch are over and the script is displayed
CloningRequestOver ==
    /\ app.pc = "ready"
    /\ app.tts_engine = "chatterbox"
    /\ app.result = "completed"

\* C19: when a request that used the Voice-Cloning engine is over, however
\* its run ended (its files returned, an exception of the combiner, or
\* set_reference_audio raising before the run), the cleanup has released
\* the model of the used instance first, has called the constructor
\* afterwards, and has stored the fresh instance that call returned in the
\* slot of the session (a call that raised stores none).
C19_CleanupReleasesThenReconstructs ==
    CloningRequestOver =>
        /\ Len(app.events) = 3
        /\ app.events[1] = "released"
        /\ app.events[2] = "construct"
        /\ app.events[3] \in {"stored", "reinit_failed"}
        /\ app.events[3] = "stored" =>
              /\ chatterbox_tts_generator.exists
              /\ HasModel
              /\ chatterbox_tts_generator.reference_audio_path = "None"

\* the reconstruction of the last cleanup raised
ReinitFailed ==
    /\ app.events # <<>>
    /\ app.events[Len(app.events)] = "reinit_failed"

----------------------------------------------------------------------------
(* The construction of a PodcastTTSGenerator: the availability check, the  *)
(* three startup steps and the creation of the pipeline.                   *)

\* the most constructor calls of one behaviour
MaxKokoroConstructions == 2

\* the frame after a step: its outcome is appended to the steps taken
StepTaken(f, step, outcome) ==
    [f EXCEPT !.steps = Append(@, [step |-> step, outcome |-> outcome])]

\* __init__ up to self.sample_rate: ImportError when KPipeline is None
KokoroBegin ==
    /\ kokoro_ctor.pc \in {"idle", "done", "raised"}
    /\ kokoro_ctor.calls < MaxKokoroConstructions
    /\ LET f == [kokoro_ctor EXCEPT !.steps = <<>>, !.pipeline = FALSE,
                                    !.error = "None", !.calls = @ + 1]
       IN  kokoro_ctor' =
              IF f.kpipeline
              THEN [f EXCEPT !.pc = "cache_dirs"]
              ELSE [f EXCEPT !.pc = "raised", !.error = "ImportError"]
    /\ UNCHANGED <<fn_vars, sg_vars, run_vars, dev_vars, gen_vars, app_vars>>

\* _configure_cache_dirs: the three mkdir calls in order, then the
\* environment defaults; an exception of a mkdir call is not caught here or
\* in __init__ and leaves the constructor
ConfigureCacheDirs ==
    /\ kokoro_ctor.pc = "cache_dirs"
    /\ \E made \in 0..Len(CacheDirs) :
          LET f == [kokoro_ctor EXCEPT
                       !.dirs = @ \cup {CacheDirs[k] : k \in 1..made}]
          IN  kokoro_ctor' =
                 IF made = Len(CacheDirs)
                 THEN [StepTaken(f, "cache_dirs", "ok") EXCEPT !.pc = "spacy"]
                 ELSE [StepTaken(f, "cache_dirs", "failed") EXCEPT
                          !.pc = "raised", !.error = "cache_dirs"]
    /\ UNCHANGED <<fn_vars, sg_vars, run_vars, dev_vars, gen_vars, app_vars>>

\* _ensure_spacy_model: returns at once without spaCy or with the model
\* installed; otherwise downloads it, and an exception of the download is
\* logged
EnsureSpacyModel ==
    /\ kokoro_ctor.pc = "spacy"
    /\ \E outcome \in {"skipped", "present", "ok", "failed"} :
          /\ outcome = "skipped" <=> ~kokoro_ctor.spacy
          /\ kokoro_ctor' =
                [StepTaken(kokoro_ctor, "spacy", outcome) EXCEPT !.pc = "warm"]
    /\ UNCHANGED <<fn_vars, sg_vars, run_vars, dev_vars, gen_vars, app_vars>>

\* _warm_kokoro_cache: returns at once without huggingface_hub; otherwise
\* snapshot_download, whose exception is logged
WarmKokoroCache ==
    /\ kokoro_ctor.pc = "warm"
    /\ \E outcome \in {"skipped", "ok", "failed"} :
          /\ outcome = "skipped" <=> ~kokoro_ctor.snapshot_download
          /\ kokoro_ctor' =
                [StepTaken(kokoro_ctor, "warm", outcome) EXCEPT
                    !.pc = "pipeline"]
    /\ UNCHANGED <<fn_vars, sg_vars, run_vars, dev_vars, gen_vars, app_vars>>

\* self.pipeline = KPipeline(...), which may raise, and the rest of __init__
CreatePipeline ==
    /\ kokoro_ctor.pc = "pipeline"
    /\ \/ kokoro_ctor' =
             [StepTaken(kokoro_ctor, "pipeline", "ok") EXCEPT
                 !.pc = "done", !.pipeline = TRUE]
       \/ kokoro_ctor' =
             [StepTaken(kokoro_ctor, "pipeline", "failed") EXCEPT
                 !.pc = "raised", !.error = "pipeline"]
    /\ UNCHANGED <<fn_vars, sg_vars, run_vars, dev_vars, gen_vars, app_vars>>

InitKokoro ==
    /\ \E kpipeline, spacy, snapshot_download \in BOOLEAN :
          kokoro_ctor = [KokoroCtorIdle EXCEPT
                            !.kpipeline = kpipeline,
                            !.spacy = spacy,
                            !.snapshot_download = snapshot_download]
    /\ TextIdle
    /\ RunIdle
    /\ MachineIdle
    /\ GeneratorIdle
    /\ AppIdle
    /\ ScriptGenIdle

NextKokoro ==
    \/ KokoroBegin
    \/ ConfigureCacheDirs
    \/ EnsureSpacyModel
    \/ WarmKokoroCache
    \/ CreatePipeline

SpecKokoro == InitKokoro /\ [][NextKokoro]_vars

\* the startup steps of the constructor call that failed
FailedStartupSteps ==
    {kokoro_ctor.steps[k].step :
        k \in {j \in 1..Len(kokoro_ctor.steps) :
                  /\ kokoro_ctor.steps[j].outcome = "failed"
                  /\ kokoro_ctor.steps[j].step # "pipeline"}}

\* C21: a failure of a startup step (the cache directories, the spaCy model,
\* the Kokoro repository) never ends the constructor call: a call in which
\* one of them failed goes on, and once it is over it has tried to create
\* the pipeline and did not raise because of the step.
C21_StartupStepsBestEffort ==
    (FailedStartupSteps # {} /\ kokoro_ctor.pc \in {"done", "raised"}) =>
        /\ \E k \in 1..Len(kokoro_ctor.steps) :
              kokoro_ctor.steps[k].step = "pipeline"
        /\ kokoro_ctor.error \in {"None", "pipeline"}

----------------------------------------------------------------------------
(* generate_podcast as a handler of its own: besides the requests the      *)
(* Studio tab makes, a request that names an engine whose slot is empty.   *)

\* the local engine_name of generate_podcast after the selection of
\* tts_gen: it is assigned only in the branch that finds a generator
EngineName(tts_engine) ==
    IF tts_engine = "chatterbox" /\ chatterbox_tts_generator.exists
    THEN "Chatterbox (Voice Cloning)"
    ELSE IF tts_engine = "kokoro" /\ session.tts_generator
    THEN "Kokoro"
    ELSE "unbound"

\* generate_podcast(…, tts_engine) for an engine without a generator:
\* tts_gen stays None and the else branch formats its warning with
\* engine_name; the UnboundLocalError of an unassigned engine_name reaches
\* the outer except branch, which reports that the generation failed, and
\* the script is not displayed
RequestUnusableEngine ==
    /\ app.pc = "ready"
    /\ app.requests < MaxRequests
    /\ \E tts_engine \in Engines \ EngineOptions :
          LET request == [app EXCEPT !.tts_engine = tts_engine,
                                     !.requests = app.requests + 1,
                                     !.outcome = "None",
                                     !.result = "None",
                                     !.events = <<>>]
          IN  \/ \* the script generator raises: the outer except branch
                 app' = [request EXCEPT !.result = "generation_failed"]
              \/ app' =
                    IF EngineName(tts_engine) = "unbound"
                    THEN [request EXCEPT !.events = <<"engine_missing">>,
                                         !.result = "generation_failed"]
                    ELSE [request EXCEPT !.events = <<"engine_missing">>,
                                         !.outcome = "unavailable",
                                         !.result = "completed"]
    /\ NoRun
    /\ UNCHANGED <<fn_vars, kok_vars, sg_vars, dev_vars, gen_vars, session>>

NextHandler ==
    \/ InitializeGenerators
    \/ CtorLoad(1)
    \/ CtorFallback(1)
    \/ CtorRestore(1)
    \/ InitStore
    \/ UploadReference
    \/ ClearReference
    \/ RenderNoEngines
    \/ StartRequest
    \/ RequestUnusableEngine
    \/ KokoroLine
    \/ ChatterboxLine
    \/ ReturnSegments
    \/ CombineAndReturn
    \/ CombineRaises
    \/ FinishRun
    \/ CleanupRelease
    \/ CleanupStore

SpecHandler == InitApp /\ [][NextHandler]_vars

\* C22: a constructor call that finds its library missing raises before any
\* load and before the loader is patched; the initialization of a session
\* without the Chatterbox library ends with an empty cloning slot, nothing
\* loaded and nothing patched; a request that names an engine whose slot is
\* empty ends with the warning that the engine is not available and the
\* script displayed; and no run is ever made with an engine whose slot is
\* empty.
C22_MissingLibraryReported ==
    /\ ctor[1].error = "ImportError" =>
          /\ ctor[1].loads = <<>>
          /\ torch_load = <<>>
    /\ (session.initialized /\ ~chatterbox_available) =>
          /\ ~chatterbox_tts_generator.exists
          /\ constructed = 0
          /\ torch_load = <<>>
    /\ (app.pc = "ready" /\ app.events = <<"engine_missing">>) =>
          /\ app.outcome = "unavailable"
          /\ app.result = "completed"
    /\ (pc = "loop" /\ engine = "chatterbox")
          => chatterbox_tts_generator.exists
    /\ (pc = "loop" /\ engine = "kokoro") => session.tts_generator

----------------------------------------------------------------------------
(* The files of one run.                                                   *)

\* the calls of sf.write for the lines of the script so far
SegmentWrites ==
    {e \in 1..Len(io_log) : io_log[e].op = "write" /\ io_log[e].line > 0}

\* C23: the file of a synthesized line is output_dir/segment_NNN_speaker.wav
\* with NNN the 1-based position of the line in the script, also after
\* earlier lines failed; the files written for the lines of one run are
\* pairwise distinct and none is output_dir/complete_podcast.wav, so that
\* there are as many files as writes and none was overwritten.
C23_SegmentPathsByPosition ==
    pc \in {"loop", "returned", "raised"} =>
       /\ \A e \in SegmentWrites :
             LET line == io_log[e].line
             IN  /\ line \in Succeeded
                 /\ io_log[e].arg.dir = "output_dir"
                 /\ io_log[e].arg.name =
                       <<"segment", ZeroPad3(line),
                         SpeakerSlug(script[line].speaker), "wav">>
                 /\ io_log[e].arg # CombinedPath
                 /\ io_log[e].arg \in DOMAIN disk
       /\ \A e1, e2 \in SegmentWrites :
             e1 # e2 => io_log[e1].arg # io_log[e2].arg
       /\ Cardinality(SegmentWrites) = Cardinality(Succeeded)
       /\ Cardinality(DOMAIN disk) =
             Cardinality(SegmentWrites) + Cardinality(CombinedWrites)

\* the first line failed, the second and third, of one speaker, were written
\* as segment_002 and segment_003 and combined
C23_Witness ==
    /\ pc = "returned"
    /\ Len(script) = 3
    /\ FailedLines = {1}
    /\ script[2].speaker = script[3].speaker
    /\ Cardinality(SegmentWrites) = 2
    /\ CombinedPath \in DOMAIN disk
    /\ Cardinality(DOMAIN disk) = 3

----------------------------------------------------------------------------
(* What a run leaves alone.                                                *)

\* `after` is `before` with records appended and none changed or removed
IsExtension(before, after) ==
    /\ Len(before) <= Len(after)
    /\ \A k \in 1..Len(before) : after[k] = before[k]

\* C24: no step of a call of generate_podcast_audio, up to and including
\* its return or its exception, changes the script, the combine_audio
\* argument or the reference path of the generator, and the AudioSegment
\* records made so far stay as they were made: a step only appends to them,
\* and the combiner leaves them as they are.
C24_RunMutatesNothing ==
    [][pc = "loop" =>
          /\ script' = script
          /\ combine_audio' = combine_audio
          /\ chatterbox_tts_generator' = chatterbox_tts_generator
          /\ IsExtension(audio_segments, audio_segments')
          /\ pc' \in {"returned", "raised"} =>
                audio_segments' = audio_segments]_vars

\* a run of two lines with the reference voice_a.wav set has combined its
\* two records and returned
C24_Witness ==
    /\ pc = "returned"
    /\ chatterbox_tts_generator.reference_audio_path = "voice_a.wav"
    /\ Len(script) = 2
    /\ Len(audio_segments) = 2
    /\ audio_segments[1].text = script[1].text
    /\ CombinedPath \in DOMAIN disk

----------------------------------------------------------------------------
(* Script generation: generate_script_from_text with the validation of the *)
(* items of the response.                                                  *)

\* the most items of the 'script' array of a response
MaxItems == 3

\* the speaker keys of the items
SpeakerLabels ==
    {<<"S", "p", "e", "a", "k", "e", "r">>,
     <<"S", "P", "E", "A", "K", "E", "R">>,
     <<" ", "s", "p", "e", "a", "k", "e", "r">>,
     <<"H", "o", "s", "t">>}

\* the dialogue values of the items that are text
Dialogues == {<<" ">>, <<"a">>, <<" ", "a", "!", " ">>, <<"a", "?">>}

\* the items of the array: an element that is no object, an object with two
\* pairs, an object with one pair whose value is no text (null, a number),
\* and the objects with one pair of texts
Items ==
    {[kind |-> "not_dict", speaker |-> <<>>, dialogue |-> <<>>],
     [kind |-> "two_pairs", speaker |-> <<>>, dialogue |-> <<>>],
     [kind |-> "no_text", speaker |-> <<"S", "p", "e", "a", "k", "e", "r">>,
      dialogue |-> <<>>]}
    \cup [kind : {"pair"}, speaker : SpeakerLabels, dialogue : Dialogues]

ItemLists == UNION {[1..n -> Items] : n \in 0..MaxItems}

\* str.lower on the letters of the speaker labels
LowerLetter(c) ==
    CASE c = "S" -> "s"
      [] c = "P" -> "p"
      [] c = "E" -> "e"
      [] c = "A" -> "a"
      [] c = "K" -> "k"
      [] c = "R" -> "r"
      [] c = "H" -> "h"
      [] OTHER   -> c

Lower(s) == [k \in 1..Len(s) |-> LowerLetter(s[k])]

\* speaker.strip(), then "Speaker" unless the lowered label is "speaker"
NormalizeSpeaker(speaker) ==
    LET stripped == Strip(speaker)
    IN  IF Lower(stripped) # <<"s", "p", "e", "a", "k", "e", "r">>
        THEN <<"S", "p", "e", "a", "k", "e", "r">>
        ELSE stripped

\* a validation that keeps the dialogue as stripped
CleanDialogueUnterminated(dialogue) == Strip(dialogue)

\* dialogue.strip(), then '.' appended unless it ends in '.', '!' or '?'
CleanDialogue(dialogue) ==
    LET stripped == Strip(dialogue)
    IN  IF EndsWithTerminal(stripped) THEN stripped ELSE Append(stripped, ".")

\* isinstance(item, dict) and len(item) == 1
IsSinglePair(item) == item.kind \in {"pair", "no_text"}

\* the loop of _validate_and_clean_script: cleaned_script after the items,
\* or the AttributeError of dialogue.strip() on a value that is no text
RECURSIVE CleanedScript(_, _)
CleanedScript(items, cleaned) ==
    IF items = <<>> THEN [raised |-> FALSE, script |-> cleaned]
    ELSE LET item == Head(items)
         IN  IF ~IsSinglePair(item)
             THEN CleanedScript(Tail(items), cleaned)
             ELSE IF item.kind = "no_text"
             THEN [raised |-> TRUE, script |-> <<>>]
             ELSE IF Strip(item.dialogue) = <<>>
             THEN CleanedScript(Tail(items), cleaned)
             ELSE CleanedScript(Tail(items),
                     Append(cleaned,
                            [speaker |-> NormalizeSpeaker(item.speaker),
                             text    |-> CleanDialogue(item.dialogue)]))

\* if len(cleaned_script) < 2: raise ValueError
TooShort(cleaned) == Len(cleaned) < 2

\* _validate_and_clean_script(script)
ValidateAndCleanScript(items) ==
    LET r == CleanedScript(items, <<>>)
    IN  IF r.raised THEN [raised |-> TRUE, error |-> "AttributeError",
                          script |-> <<>>]
        ELSE IF TooShort(r.script)
        THEN [raised |-> TRUE, error |-> "ValueError", script |-> <<>>]
        ELSE [raised |-> FALSE, error |-> "None", script |-> r.script]

\* generate_script_from_text: the response is parsed and its 'script' array
\* validated; an exception of the validation leaves the call, and a
\* validated list becomes a PodcastScript with total_lines = len(script)
GenerateScriptFromText ==
    /\ script_gen.pc = "called"
    /\ LET r == ValidateAndCleanScript(script_gen.items)
       IN  script_gen' =
              IF r.raised
              THEN [script_gen EXCEPT !.pc = "raised", !.error = r.error]
              ELSE [script_gen EXCEPT !.pc = "returned",
                                      !.script = r.script,
                                      !.total_lines = Len(r.script)]
    /\ UNCHANGED <<fn_vars, kok_vars, run_vars, dev_vars, gen_vars, app_vars>>

\* generate_script_from_text when the call of the LLM raises, the response
\* is no JSON, or it has no 'script' array: the exception leaves the call
ResponseRejected ==
    /\ script_gen.pc = "called"
    /\ script_gen' = [script_gen EXCEPT !.pc = "raised",
                                        !.error = "ValueError"]
    /\ UNCHANGED <<fn_vars, kok_vars, run_vars, dev_vars, gen_vars, app_vars>>

InitScript ==
    /\ \E items \in ItemLists :
          script_gen = [pc |-> "called", items |-> items, script |-> <<>>,
                        total_lines |-> 0, error |-> "None"]
    /\ TextIdle
    /\ RunIdle
    /\ MachineIdle
    /\ GeneratorIdle
    /\ AppIdle
    /\ KokoroIdle

NextScript ==
    \/ GenerateScriptFromText
    \/ ResponseRejected

SpecScript == InitScript /\ [][NextScript]_vars

\* C25: in every script that generate_script_from_text returns, all lines
\* carry the same speaker label.
C25_OneSpeakerLabel ==
    script_gen.pc = "returned" =>
       \A i, j \in 1..Len(script_gen.script) :
          script_gen.script[i].speaker = script_gen.script[j].speaker

\* the items of the input that are an object of one pair with a text that
\* is not empty after stripping, in order
RECURSIVE KeptItems(_)
KeptItems(items) ==
    IF items = <<>> THEN <<>>
    ELSE IF /\ Head(items).kind = "pair"
            /\ Strip(Head(items).dialogue) # <<>>
         THEN <<Head(items)>> \o KeptItems(Tail(items))
         ELSE KeptItems(Tail(items))

\* C26: a script that generate_script_from_text returns has at least one
\* line (in fact two), each line is one pair of a speaker and a text that is
\* not empty and ends in '.', '!' or '?', and total_lines is the number of
\* its lines; its lines are, in order, the items of the response that are an
\* object of one pair with a non-empty text, the other items dropped; and a
\* call whose items leave fewer than two lines ends in an exception with no
\* script returned.
C26_ScriptDocumentWellFormed ==
    /\ script_gen.pc = "returned" =>
          /\ script_gen.script # <<>>
          /\ script_gen.total_lines = Len(script_gen.script)
          /\ \A k \in 1..Len(script_gen.script) :
                /\ DOMAIN script_gen.script[k] = {"speaker", "text"}
                /\ script_gen.script[k].text # <<>>
                /\ EndsWithTerminal(script_gen.script[k].text)
          /\ Len(script_gen.script) = Len(KeptItems(script_gen.items))
          /\ \A k \in 1..Len(script_gen.script) :
                LET stripped == Strip(KeptItems(script_gen.items)[k].dialogue)
                IN  /\ StartsWith(script_gen.script[k].text, stripped)
                    /\ Len(script_gen.script[k].text) <= Len(stripped) + 1
    /\ (script_gen.pc \in {"returned", "raised"}
          /\ Len(KeptItems(script_gen.items)) < 2) =>
          /\ script_gen.pc = "raised"
          /\ script_gen.script = <<>>

\* a response of three items, one of them no object, was validated into a
\* script of two lines, the text of the first closed by an appended '.'
C26_Witness ==
    /\ script_gen.pc = "returned"
    /\ Len(script_gen.items) = 3
    /\ script_gen.items[2].kind = "not_dict"
    /\ script_gen.items[1].dialogue = <<"a">>
    /\ script_gen.total_lines = 2
    /\ script_gen.script[1].text = <<"a", ".">>

----------------------------------------------------------------------------
(* The cloning slot after the cleanup of generate_podcast.                 *)

\* C27: whenever the app waits for the next request, after the cleanup of a
\* Chatterbox request by any path, the cloning slot is empty or holds an
\* instance with a loaded model, never an instance whose model was deleted;
\* and every run with the Chatterbox engine is made on an instance that has
\* its model.
C27_SlotNeverModelLess ==
    /\ app.pc = "ready" =>
          \/ ~chatterbox_tts_generator.exists
          \/ chatterbox_tts_generator.model \notin {"None", "deleted"}
    /\ (app.pc = "running" /\ engine = "chatterbox") => HasModel

----------------------------------------------------------------------------
(* The normalizer applied to its own result.                               *)

\* s contains pat
RECURSIVE Contains(_, _)
Contains(s, pat) ==
    IF Len(s) < Len(pat) THEN FALSE
    ELSE StartsWith(s, pat) \/ Contains(Tail(s), pat)

\* C28: the text _clean_text_for_tts returns is returned unchanged when it
\* is cleaned again, and it contains no "...", "!!" or "??".
C28_CleanTextIdempotent ==
    fn_pc = "cleaned" =>
       /\ CleanTextForTTS(fn_out) = fn_out
       /\ ~Contains(fn_out, <<".", ".", ".">>)
       /\ ~Contains(fn_out, <<"!", "!">>)
       /\ ~Contains(fn_out, <<"?", "?">>)

----------------------------------------------------------------------------
(* Runs over scripts with a line that yields no audio parts.               *)

\* a line whose text is whitespace only: the splitter finds no sentence
LineBlank == [speaker |-> <<"S">>, text |-> <<" ">>]

BlankScripts == UNION {[1..n -> {LineBlank, LineShort}] : n \in 1..MaxLines}

\* generate_podcast_audio called with a script a caller built by hand
InitBlank ==
    /\ MachineIdle
    /\ chatterbox_tts_generator = NewGenerator("cpu")
    /\ ref_calls = <<>>
    /\ AppIdle
    /\ TextIdle
    /\ KokoroIdle
    /\ ScriptGenIdle
    /\ engine \in Engines
    /\ script \in BlankScripts
    /\ combine_audio \in BOOLEAN
    /\ line_no = 0
    /\ audio_segments = <<>>
    /\ output_files = <<>>
    /\ disk = <<>>
    /\ io_log = <<>>
    /\ failed = {}
    /\ pc = "loop"
    /\ audio_files = [set |-> FALSE, files |-> <<>>]

NextBlank ==
    \/ KokoroLine
    \/ ChatterboxLine
    \/ ReturnSegments
    \/ CombineAndReturn
    \/ CombineRaises

SpecBlank == InitBlank /\ [][NextBlank]_vars

\* line `line` was processed and yielded no audio part: the splitter
\* returned no phase for its text (Chatterbox), the pipeline emitted no
\* chunk (Kokoro)
NoAudioParts(line) ==
    IF engine = "chatterbox"
    THEN SplitTextIntoPhases(script[line].text, ChatterboxMaxChars) = <<>>
    ELSE [line |-> line, why |-> "no_audio"] \in failed

\* C29: a processed line that yielded no audio part is a failed line: the
\* model was not called for a phase of it (Chatterbox), no file was written
\* for it, its path is neither in the list the run holds nor in the list
\* returned, no AudioSegment was made for it and no sample of the combined
\* audio comes from it; and the run goes on: it ends only after the last
\* line, every other line that did not fail has its file, and only the
\* combiner can make the run raise.
C29_NoPartsIsLineFailure ==
    /\ \A line \in 1..line_no :
          NoAudioParts(line) =>
             /\ line \in FailedLines
             /\ \A e \in 1..Len(io_log) :
                   io_log[e].line = line =>
                      /\ io_log[e].op = "generate"
                      /\ engine = "kokoro"
             /\ PathOf(line) \notin DOMAIN disk
             /\ PathOf(line) \notin Range(output_files)
             /\ PathOf(line) \notin Range(audio_files.files)
             /\ \A k \in 1..Len(audio_segments) :
                   audio_segments[k].file_path # PathOf(line)
             /\ CombinedPath \in DOMAIN disk =>
                   \A i \in 1..Len(disk[CombinedPath]) :
                      disk[CombinedPath][i][1] # line
    /\ \A line \in Succeeded : PathOf(line) \in DOMAIN disk
    /\ pc \in {"returned", "raised"} => line_no = Len(script)
    /\ pc = "raised" => ShouldCombine

\* a Chatterbox run over a blank line followed by two lines has returned:
\* the blank line failed without a call of the model, the two others were
\* written and combined
C29_Witness ==
    /\ pc = "returned"
    /\ engine = "chatterbox"
    /\ script = <<LineBlank, LineShort, LineShort>>
    /\ FailedLines = {1}
    /\ failed = {[line |-> 1, why |-> "no_audio"]}
    /\ DOMAIN disk = {PathOf(2), PathOf(3), CombinedPath}
    /\ audio_files.files = <<PathOf(2), PathOf(3), CombinedPath>>

----------------------------------------------------------------------------
(* Two constructor calls of ChatterboxTTSGenerator in one process, each in *)
(* a thread of its own (two sessions of the app initializing): their steps *)
(* interleave, torch.load is shared.                                       *)

\* caller c constructs a generator, once
ConstructIn(c) ==
    /\ ctor[c].pc = "idle"
    /\ \E device \in DeviceArgs : CtorBegin(c, device)
    /\ UNCHANGED <<fn_vars, kok_vars, sg_vars, run_vars, gen_vars, app_vars>>

NextOverlap ==
    \E c \in Constructors :
       \/ ConstructIn(c)
       \/ CtorLoad(c)
       \/ CtorFallback(c)
       \/ CtorRestore(c)

SpecOverlap == InitCtor /\ [][NextOverlap]_vars

\* both constructor calls were made and are over
BothFinished == \A c \in Constructors : ctor[c].pc \in {"done", "raised"}

\* C30: once both constructor calls are over, torch.load is the original
\* function again; and every load of a constructor call ran with the
\* remapping to the device of its own instance.
C30_OverlappingConstructionsRestore ==
    /\ BothFinished => torch_load = <<>>
    /\ \A c \in Constructors :
          \A k \in 1..Len(ctor[c].loads) :
             ctor[c].loads[k].map_location = ctor[c].loads[k].device

=============================================================================
